---- MODULE Spec2Model ----
(***************************************************************************)
(* The condition/action event engine of the Fusion-clone programs          *)
(* (multimediafuzion4k.py, CatFusion1.0.py, enginev0.py): frames, objects, *)
(* events, the registry-driven loader and the main loop with its global    *)
(* frame-switch signal ENGINE_CURRENT_FRAME.                               *)
(*                                                                         *)
(* Python object references are indices: a Frame is an index into heap, a  *)
(* sprite is an index into its frame's objects sequence, 0 is None.  The   *)
(* string None stands for Python's None where a name is expected.          *)
(***************************************************************************)
EXTENDS Integers, Sequences, FiniteSets, TLC

VARIABLES
    variant,        \* which of the three programs this process is
    project_data,   \* the editor's declarative document (module global)
    ENGINE_CURRENT_FRAME, \* module global: the pending frame request
    heap,           \* the Frame objects built by load_project
    frames,         \* FusionCloneEngine.frames: dict name -> Frame, in insertion order
    current_frame,  \* FusionCloneEngine.current_frame: a Frame (index) or 0
    running,        \* FusionCloneEngine.running
    keys,           \* pygame's key state, refreshed by the event pump
    pc,             \* where the engine is: new, loaded, pump, switch, tick, events, exited, crashed
    idx,            \* Frame.update: index of the next Event to run
    error,          \* the exception that ended the process, or None
    log,            \* history: one entry per Event.run call of the current tick
    tickFrame,      \* history: the Frame whose update() ran last
    updates,        \* history: completed update() calls per Frame, saturating
    called,         \* history: the argument of the last change_frame call before the loop
    file,           \* the project file on disk as JSON text (its syntax tree), or None
    dt,             \* main_loop's dt of the current iteration, in milliseconds
    player,         \* Test4k_math.py: the DemoPlayer (health, invincible, position cell)
    invokes         \* Test4k_math.py: pending invoke(setattr, player, 'invincible', False)

vars == <<variant, project_data, ENGINE_CURRENT_FRAME, heap, frames, current_frame,
          running, keys, pc, idx, error, log, tickFrame, updates, called, file, dt, player, invokes>>

None == "<None>"

\* history counters saturate here
MaxCount == 2

\* the longest time between two loop iterations, in milliseconds
MaxElapsed == 2000

\* the times between two iterations: shorter than a frame period, or long
Elapsed == {5, MaxElapsed}

FPS == 60

Variants == {"multimediafuzion4k", "CatFusion", "enginev0"}

Min(a, b) == IF a <= b THEN a ELSE b

Last(s) == s[Len(s)]

\* dict.get(k, default) on a params mapping
Get(params, k, default) == IF k \in DOMAIN params THEN params[k] ELSE default

(***************************************************************************)
(* Literals.  eval() of a color string and float() of a value string are   *)
(* tables over the literals the documents use.                             *)
(***************************************************************************)
ColorLit == [c \in {"(255,0,0)", "(0,255,0)"} |->
                IF c = "(255,0,0)" THEN <<255, 0, 0>> ELSE <<0, 255, 0>>]

NumLit == [s \in {"0", "5", "10"} |-> IF s = "0" THEN 0 ELSE IF s = "5" THEN 5 ELSE 10]

\* float(value) raises ValueError on a string that is no number
float_raises(value) == value # "" /\ value \notin DOMAIN NumLit

\* float(value) if value else 0
to_float(value) == IF value = "" THEN 0 ELSE NumLit[value]

\* the names getattr(pygame, key) resolves to a key code
PygameKeys == {"K_SPACE"}

(***************************************************************************)
(* Runtime objects                                                         *)
(***************************************************************************)
\* EngineObject.__init__ / TextObject / CounterObject: a sprite with its rect
EngineObject(kind, name, x, y, w, h, color, value) ==
    [kind |-> kind, name |-> name, x |-> x, y |-> y, w |-> w, h |-> h,
     color |-> color, fill |-> color, value |-> value]

\* pygame.Rect.colliderect on rects of positive size
colliderect(a, b) ==
    /\ a.x < b.x + b.w
    /\ b.x < a.x + a.w
    /\ a.y < b.y + b.h
    /\ b.y < a.y + a.h

\* get_object_by_name that falls back to the first sprite of the group
get_object_by_name_first(frame, name) ==
    LET hits == {i \in 1..Len(frame.objects) : frame.objects[i].name = name}
    IN  IF hits = {} THEN Min(1, Len(frame.objects))
        ELSE CHOOSE i \in hits : \A j \in hits : i <= j

\* Frame.get_object_by_name: the first sprite with that name, or 0
get_object_by_name(frame, name) ==
    LET hits == {i \in 1..Len(frame.objects) : frame.objects[i].name = name}
    IN  IF hits = {} THEN 0 ELSE CHOOSE i \in hits : \A j \in hits : i <= j

\* Frame.remove_object: that sprite leaves the group
remove_object(frame, i) ==
    [frame EXCEPT !.objects =
        [k \in 1..(Len(frame.objects) - 1) |->
            IF k < i THEN frame.objects[k] ELSE frame.objects[k + 1]]]

\* CounterObject.set_value: the new value, and the image rendered again in self.color
set_value(frame, i, val) ==
    [frame EXCEPT !.objects[i].value = val, !.objects[i].fill = frame.objects[i].color]

(***************************************************************************)
(* Conditions                                                              *)
(***************************************************************************)
KeyPressed_check(c, pressed) == c.key \in PygameKeys /\ c.key \in pressed

ObjectCollision_check(c, frame) ==
    LET oa == get_object_by_name(frame, c.obj_a)
        ob == get_object_by_name(frame, c.obj_b)
    IN  IF oa = 0 \/ ob = 0 THEN FALSE
        ELSE colliderect(frame.objects[oa], frame.objects[ob])

CompareCounter_check(c, frame) ==
    LET i == get_object_by_name(frame, c.counter_name)
    IN  IF i = 0 THEN FALSE
        ELSE IF frame.objects[i].kind # "CounterObject" THEN FALSE
        ELSE LET v == frame.objects[i].value
             IN  CASE c.operator = "==" -> v = c.value
                   [] c.operator = "!=" -> v # c.value
                   [] c.operator = "<"  -> v < c.value
                   [] c.operator = "<=" -> v <= c.value
                   [] c.operator = ">"  -> v > c.value
                   [] c.operator = ">=" -> v >= c.value
                   [] OTHER -> FALSE

\* Condition.check(frame), dispatched on the instance's class
check(c, frame, pressed) ==
    CASE c.cls = "KeyPressed"      -> KeyPressed_check(c, pressed)
      [] c.cls = "ObjectCollision" -> ObjectCollision_check(c, frame)
      [] c.cls = "CompareCounter"  -> CompareCounter_check(c, frame)

(***************************************************************************)
(* Actions.  An action works on st = [frame, pending]: the Frame it is     *)
(* given and the global ENGINE_CURRENT_FRAME.                              *)
(***************************************************************************)
ChangeObjectColor_execute(a, st) ==
    LET i == get_object_by_name(st.frame, a.obj_name)
    IN  IF i = 0 THEN st
        ELSE IF a.color_str \in DOMAIN ColorLit
             THEN [st EXCEPT !.frame.objects[i].fill = ColorLit[a.color_str]]
             ELSE st

DestroyObject_execute(a, st) ==
    LET i == get_object_by_name(st.frame, a.obj_name)
    IN  IF i = 0 THEN st ELSE [st EXCEPT !.frame = remove_object(st.frame, i)]

\* GoToFrame.execute that keeps a request already recorded
GoToFrame_execute_first(a, st) ==
    IF st.pending = None THEN [st EXCEPT !.pending = a.frame_name] ELSE st

GoToFrame_execute(a, st) == [st EXCEPT !.pending = a.frame_name]

SetCounterValue_execute(a, st) ==
    LET i == get_object_by_name(st.frame, a.counter_name)
    IN  IF i # 0 /\ st.frame.objects[i].kind = "CounterObject"
        THEN [st EXCEPT !.frame = set_value(st.frame, i, a.value)]
        ELSE st

\* Action.execute(frame), dispatched on the instance's class
execute(a, st) ==
    CASE a.cls = "ChangeObjectColor" -> ChangeObjectColor_execute(a, st)
      [] a.cls = "DestroyObject"     -> DestroyObject_execute(a, st)
      [] a.cls = "GoToFrame"         -> GoToFrame_execute(a, st)
      [] a.cls = "SetCounterValue"   -> SetCounterValue_execute(a, st)

(***************************************************************************)
(* Event.run                                                               *)
(***************************************************************************)
\* all(c.check(frame) for c in self.conditions): stops at the first false one
RECURSIVE all_checks(_, _, _, _)
all_checks(conds, i, frame, pressed) ==
    IF i > Len(conds) THEN TRUE
    ELSE IF ~check(conds[i], frame, pressed) THEN FALSE
    ELSE all_checks(conds, i + 1, frame, pressed)

\* for a in self.actions: a.execute(frame); st.executed records each call
RECURSIVE run_actions(_, _, _)
run_actions(acts, i, st) ==
    IF i > Len(acts) THEN st
    ELSE run_actions(acts, i + 1,
                     [execute(acts[i], st) EXCEPT !.executed = Append(@, acts[i])])

\* Event.run with any() in the place of all()
Event_run_any(e, frame, pending, pressed) ==
    LET st0 == [frame |-> frame, pending |-> pending, executed |-> <<>>]
    IN  IF \E k \in 1..Len(e.conditions) : check(e.conditions[k], frame, pressed)
        THEN run_actions(e.actions, 1, st0)
        ELSE st0

\* Event.run that needs at least one condition to fire
Event_run_guarded(e, frame, pending, pressed) ==
    LET st0 == [frame |-> frame, pending |-> pending, executed |-> <<>>]
    IN  IF e.conditions # <<>> /\ all_checks(e.conditions, 1, frame, pressed)
        THEN run_actions(e.actions, 1, st0)
        ELSE st0

Event_run(e, frame, pending, pressed) ==
    LET st0 == [frame |-> frame, pending |-> pending, executed |-> <<>>]
    IN  IF all_checks(e.conditions, 1, frame, pressed)
        THEN run_actions(e.actions, 1, st0)
        ELSE st0

(***************************************************************************)
(* load_project                                                            *)
(***************************************************************************)
IsMM(v) == v = "multimediafuzion4k"

\* self.registered_conditions after the plugin merge; the if/elif chains of
\* CatFusion1.0.py and enginev0.py
registered_conditions(v) ==
    IF IsMM(v) THEN {"KeyPressed", "ObjectCollision", "CompareCounter"}
    ELSE {"KeyPressed", "ObjectCollision"}

registered_actions(v) ==
    IF IsMM(v) THEN {"ChangeObjectColor", "DestroyObject", "GoToFrame", "SetCounterValue"}
    ELSE {"ChangeObjectColor", "DestroyObject", "GoToFrame"}

registered_object_types == {"ActiveObject", "TextObject", "CounterObject"}

\* build_class_instance(cond_class, c_params): cls(**param_dict); the other two
\* programs read each parameter with params.get(name, default)
build_condition(v, c_data) ==
    LET p == c_data.params
    IN  CASE c_data.type = "KeyPressed" ->
               [cls |-> "KeyPressed",
                key |-> IF IsMM(v) THEN p.key ELSE Get(p, "key", "K_SPACE")]
          [] c_data.type = "ObjectCollision" ->
               [cls |-> "ObjectCollision",
                obj_a |-> IF IsMM(v) THEN p.obj_a ELSE Get(p, "obj_name_a", ""),
                obj_b |-> IF IsMM(v) THEN p.obj_b ELSE Get(p, "obj_name_b", "")]
          [] c_data.type = "CompareCounter" ->
               [cls |-> "CompareCounter", counter_name |-> p.counter_name,
                operator |-> p.operator, value |-> to_float(p.value)]

build_action(v, a_data) ==
    LET p == a_data.params
    IN  CASE a_data.type = "ChangeObjectColor" ->
               [cls |-> "ChangeObjectColor",
                obj_name |-> IF IsMM(v) THEN p.obj_name ELSE Get(p, "obj_name", ""),
                color_str |-> IF IsMM(v) THEN p.color_str ELSE Get(p, "color", "(255,0,0)")]
          [] a_data.type = "DestroyObject" ->
               [cls |-> "DestroyObject",
                obj_name |-> IF IsMM(v) THEN p.obj_name ELSE Get(p, "obj_name", "")]
          [] a_data.type = "GoToFrame" ->
               [cls |-> "GoToFrame",
                frame_name |-> IF IsMM(v) THEN p.frame_name ELSE Get(p, "frame_name", "")]
          [] a_data.type = "SetCounterValue" ->
               [cls |-> "SetCounterValue", counter_name |-> p.counter_name,
                value |-> to_float(p.value)]

\* one entry of frame_data["objects"].  multimediafuzion4k.py picks the class
\* from the registry and falls back to EngineObject; a text or counter sprite
\* takes its rect from the rendered text, whose size is pygame's (a font_size
\* square here).  The other two programs build an EngineObject for every entry.
build_object(v, o_data) ==
    LET col == ColorLit[Get(o_data, "color", "(255,0,0)")]
        fs  == Get(o_data, "font_size", 24)
        ty  == Get(o_data, "type", "ActiveObject")
    IN  IF IsMM(v) /\ ty = "TextObject"
        THEN EngineObject("TextObject", Get(o_data, "name", "Obj"),
                          Get(o_data, "x", 100), Get(o_data, "y", 100), fs, fs, col, 0)
        ELSE IF IsMM(v) /\ ty = "CounterObject"
        THEN EngineObject("CounterObject", Get(o_data, "name", "Obj"),
                          Get(o_data, "x", 100), Get(o_data, "y", 100), fs, fs, col,
                          Get(o_data, "initial_value", 0))
        ELSE IF IsMM(v)
        THEN EngineObject("EngineObject", Get(o_data, "name", "Obj"),
                          Get(o_data, "x", 100), Get(o_data, "y", 100),
                          Get(o_data, "w", 50), Get(o_data, "h", 50), col, 0)
        ELSE EngineObject("EngineObject", Get(o_data, "name", "Unnamed"),
                          Get(o_data, "x", 0), Get(o_data, "y", 0),
                          Get(o_data, "w", 50), Get(o_data, "h", 50), col, 0)

\* cls(**param_dict) raises: CompareCounter.__init__ and SetCounterValue.__init__
\* call float(value) outside any try; the classes exist in multimediafuzion4k.py only
build_raises(v, d) ==
    /\ IsMM(v)
    /\ d.type \in {"CompareCounter", "SetCounterValue"}
    /\ float_raises(d.params.value)

\* building the Events of frame_data raises
frame_raises(v, frame_data) ==
    \E e \in 1..Len(Get(frame_data, "events", <<>>)) :
        LET evt_data == Get(frame_data, "events", <<>>)[e]
            cs == Get(evt_data, "conditions", <<>>)
            as == Get(evt_data, "actions", <<>>)
        IN  \/ \E k \in 1..Len(cs) :
                  cs[k].type \in registered_conditions(v) /\ build_raises(v, cs[k])
            \/ \E k \in 1..Len(as) :
                  as[k].type \in registered_actions(v) /\ build_raises(v, as[k])

\* the declarations up to the first one of an unknown type
RECURSIVE UntilUnknown(_, _)
UntilUnknown(ds, reg) ==
    IF ds = <<>> \/ Head(ds).type \notin reg THEN <<>>
    ELSE <<Head(ds)>> \o UntilUnknown(Tail(ds), reg)

\* build_event that stops reading a list at the first unknown type
build_event_stop(v, evt_data) ==
    LET cs == UntilUnknown(Get(evt_data, "conditions", <<>>), registered_conditions(v))
        as == UntilUnknown(Get(evt_data, "actions", <<>>), registered_actions(v))
    IN  [conditions |-> [i \in 1..Len(cs) |-> build_condition(v, cs[i])],
         actions    |-> [i \in 1..Len(as) |-> build_action(v, as[i])]]

\* the conditions and actions whose type the registry knows, in declared order
build_event(v, evt_data) ==
    LET cs == SelectSeq(Get(evt_data, "conditions", <<>>),
                        LAMBDA c : c.type \in registered_conditions(v))
        as == SelectSeq(Get(evt_data, "actions", <<>>),
                        LAMBDA a : a.type \in registered_actions(v))
    IN  [conditions |-> [i \in 1..Len(cs) |-> build_condition(v, cs[i])],
         actions    |-> [i \in 1..Len(as) |-> build_action(v, as[i])]]

build_frame(v, frame_data) ==
    LET os == Get(frame_data, "objects", <<>>)
        es == Get(frame_data, "events", <<>>)
    IN  [name     |-> Get(frame_data, "name", IF IsMM(v) THEN "Unnamed" ELSE "Untitled"),
         bg_color |-> Get(frame_data, "bg_color", <<0, 0, 0>>),
         objects  |-> [i \in 1..Len(os) |-> build_object(v, os[i])],
         events   |-> [i \in 1..Len(es) |-> build_event(v, es[i])]]

\* d[k] = ref on a dict kept in insertion order
dict_set(d, k, ref) ==
    IF \E i \in 1..Len(d) : d[i].key = k
    THEN [i \in 1..Len(d) |-> IF d[i].key = k THEN [key |-> k, ref |-> ref] ELSE d[i]]
    ELSE Append(d, [key |-> k, ref |-> ref])

\* d.get(k): the Frame, or 0
dict_get(d, k) ==
    IF \E i \in 1..Len(d) : d[i].key = k
    THEN d[CHOOSE i \in 1..Len(d) : d[i].key = k].ref
    ELSE 0

\* load_project: for each frame_data a new Frame, stored under its name; an
\* exception raised while a frame is built leaves the method, and the frames
\* stored before it stay in self.frames
RECURSIVE load_project(_, _, _, _)
load_project(v, fs, i, eng) ==
    IF i > Len(fs) THEN eng
    ELSE IF frame_raises(v, fs[i]) THEN [eng EXCEPT !.error = "ValueError"]
    ELSE LET f == build_frame(v, fs[i])
             h == Append(eng.heap, f)
         IN  load_project(v, fs, i + 1,
                          [eng EXCEPT !.heap = h,
                                      !.frames = dict_set(eng.frames, f.name, Len(h))])

\* change_frame as self.current_frame = self.frames.get(frame_name)
change_frame_get(d, cur, frame_name) == dict_get(d, frame_name)

\* change_frame: the engine's current_frame after the call
change_frame(d, cur, frame_name) ==
    IF dict_get(d, frame_name) # 0 THEN dict_get(d, frame_name) ELSE cur

(***************************************************************************)
(* The documents: what each program's editor writes into project_data.     *)
(* The parameter names are those of the editor of the same program.        *)
(***************************************************************************)
KeyPressedD(k) == [type |-> "KeyPressed", params |-> [key |-> k]]

ObjectCollisionD(v, a, b) ==
    [type |-> "ObjectCollision",
     params |-> IF IsMM(v) THEN [obj_a |-> a, obj_b |-> b]
                ELSE [obj_name_a |-> a, obj_name_b |-> b]]

CompareCounterD(n, op, val) ==
    [type |-> "CompareCounter", params |-> [counter_name |-> n, operator |-> op, value |-> val]]

ChangeObjectColorD(v, n, col) ==
    [type |-> "ChangeObjectColor",
     params |-> IF IsMM(v) THEN [obj_name |-> n, color_str |-> col]
                ELSE [obj_name |-> n, color |-> col]]

DestroyObjectD(n) == [type |-> "DestroyObject", params |-> [obj_name |-> n]]

GoToFrameD(n) == [type |-> "GoToFrame", params |-> [frame_name |-> n]]

SetCounterValueD(n, val) ==
    [type |-> "SetCounterValue", params |-> [counter_name |-> n, value |-> val]]

\* type names no registry knows
MouseClickedD == [type |-> "MouseClicked", params |-> [button |-> "1"]]
PlaySoundD == [type |-> "PlaySound", params |-> [file |-> "beep"]]

EventD(cs, as) == [conditions |-> cs, actions |-> as]

ActiveD(n, x, y) ==
    [type |-> "ActiveObject", name |-> n, x |-> x, y |-> y, w |-> 50, h |-> 50,
     color |-> "(255,0,0)"]

CounterD(n, x, y, val) ==
    [type |-> "CounterObject", name |-> n, x |-> x, y |-> y, w |-> 50, h |-> 50,
     color |-> "(255,0,0)", font_size |-> 24, initial_value |-> val]

\* Player and Enemy overlap; Score is a counter away from both
ObjsPlain == <<ActiveD("Player", 0, 0), ActiveD("Enemy", 40, 0), CounterD("Score", 200, 200, 5)>>

\* a document in which names repeat (PropertyInspector.on_apply stores any
\* name; a document opened from a file holds what the file holds): a second
\* Enemy, and an active object called Score ahead of the counter
ObjsRenamed ==
    <<ActiveD("Score", 300, 0), ActiveD("Player", 0, 0), ActiveD("Enemy", 40, 0),
      ActiveD("Enemy", 20, 0), CounterD("Score", 200, 200, 5)>>

\* a document with an object whose type no registry knows
ObjsUnknown ==
    <<ActiveD("Player", 0, 0),
      [type |-> "Particle", name |-> "Spark", x |-> 40, y |-> 0, w |-> 50, h |-> 50,
       color |-> "(255,0,0)"],
      CounterD("Score", 200, 200, 5)>>

ObjLists == {ObjsPlain, ObjsRenamed, ObjsUnknown}

EvGo == EventD(<<KeyPressedD("K_SPACE")>>, <<GoToFrameD("Level1")>>)
EvGoBad == EventD(<<KeyPressedD("K_SPACE")>>, <<GoToFrameD("Nowhere")>>)
EvGoSelf == EventD(<<>>, <<GoToFrameD("Menu")>>)
\* the frame_name entry left blank in the editor
EvGoBlank == EventD(<<KeyPressedD("K_SPACE")>>, <<GoToFrameD("")>>)
EvDestroy == EventD(<<KeyPressedD("K_SPACE")>>, <<DestroyObjectD("Enemy")>>)
EvHit(v) ==
    EventD(<<ObjectCollisionD(v, "Player", "Enemy")>>,
           <<ChangeObjectColorD(v, "Player", "(0,255,0)"), SetCounterValueD("Score", "10")>>)
EvHitKey(v) ==
    EventD(<<KeyPressedD("K_SPACE"), ObjectCollisionD(v, "Enemy", "Player")>>,
           <<DestroyObjectD("Player")>>)
EvScore == EventD(<<CompareCounterD("Score", "==", "5")>>, <<SetCounterValueD("Score", "10")>>)
EvGe == EventD(<<CompareCounterD("Score", ">=", "10")>>, <<GoToFrameD("Level1")>>)
EvUnknown ==
    EventD(<<MouseClickedD, KeyPressedD("K_SPACE")>>,
           <<PlaySoundD, DestroyObjectD("Enemy"), GoToFrameD("Level1")>>)
\* an Event whose only condition is of a type no registry knows
EvOnlyUnknown == EventD(<<MouseClickedD>>, <<DestroyObjectD("Enemy")>>)
EvBadKey == EventD(<<KeyPressedD("SPACE")>>, <<DestroyObjectD("Player")>>)
\* entries typed with a value that is no number, and with a color that is no tuple
EvBadValue == EventD(<<CompareCounterD("Score", ">=", "abc")>>, <<GoToFrameD("Level1")>>)
EvBadSet == EventD(<<KeyPressedD("K_SPACE")>>, <<SetCounterValueD("Score", "abc")>>)
\* one Event that destroys and sets the same name, in either order
EvDestroySet ==
    EventD(<<KeyPressedD("K_SPACE")>>, <<DestroyObjectD("Score"), SetCounterValueD("Score", "10")>>)
EvSetDestroy ==
    EventD(<<KeyPressedD("K_SPACE")>>, <<SetCounterValueD("Score", "10"), DestroyObjectD("Score")>>)
EvBadColor(v) == EventD(<<KeyPressedD("K_SPACE")>>, <<ChangeObjectColorD(v, "Player", "red")>>)

EvLists(v) ==
    { <<EvGo>>,
      <<EvGo, EvDestroy, EvHit(v)>>,
      <<EvDestroy, EvHitKey(v)>>,
      <<EvScore>>,
      <<EvScore, EvGe>>,
      <<EvGoBad>>,
      <<EvGoBlank>>,
      <<EvGo, EvGoBad>>,
      <<EvGoBad, EvGo>>,
      <<EvGoSelf, EvBadKey>>,
      <<EvUnknown, EvHit(v)>>,
      <<EvBadColor(v), EvGo>>,
      <<EvGo, EvBadValue>>,
      <<EvBadSet>>,
      <<EvDestroySet>>,
      <<EvSetDestroy>>,
      <<EvOnlyUnknown>> }

FrameD(n, bg, os, es) == [name |-> n, bg_color |-> bg, objects |-> os, events |-> es]

Level1D ==
    FrameD("Level1", <<80, 80, 220>>, <<CounterD("Score", 0, 0, 0)>>,
           <<EventD(<<KeyPressedD("K_SPACE")>>, <<GoToFrameD("Menu")>>)>>)

Docs(v) ==
    { [frames |-> <<FrameD("Menu", <<40, 40, 40>>, os, es), Level1D>>] :
          os \in ObjLists, es \in EvLists(v) }
    \cup { [frames |-> <<>>] }

\* the names change_frame is called with
FrameNames == {"Menu", "Level1", "Nowhere"}

(***************************************************************************)
(* The state machine                                                       *)
(***************************************************************************)
Init ==
    /\ variant \in Variants
    /\ project_data \in Docs(variant)
    /\ ENGINE_CURRENT_FRAME = None
    /\ heap = <<>>
    /\ frames = <<>>
    /\ current_frame = 0
    /\ running = TRUE
    /\ keys = {}
    /\ pc = "new"
    /\ idx = 0
    /\ error = None
    /\ log = <<>>
    /\ tickFrame = 0
    /\ updates = <<>>
    /\ called = None
    /\ dt = 0
    /\ player = None
    /\ invokes = 0
    /\ file = None

\* eng.load_project(project_data); an exception it raises leaves run_game
LoadProject ==
    /\ pc = "new"
    /\ LET eng == load_project(variant, Get(project_data, "frames", <<>>), 1,
                               [heap |-> heap, frames |-> frames, error |-> None])
       IN  /\ heap' = eng.heap
           /\ frames' = eng.frames
           /\ updates' = [i \in 1..Len(eng.heap) |-> 0]
           /\ error' = eng.error
           /\ pc' = IF eng.error = None THEN "loaded" ELSE "crashed"
    /\ UNCHANGED <<player, invokes, dt, file, variant, project_data, ENGINE_CURRENT_FRAME, current_frame, running,
                   keys, idx, log, tickFrame, called>>

\* eng.change_frame(frame_name), called before the loop
ChangeFrame(frame_name) ==
    /\ pc \in {"new", "loaded"}
    /\ current_frame' = change_frame(frames, current_frame, frame_name)
    /\ called' = frame_name
    /\ UNCHANGED <<player, invokes, dt, file, variant, project_data, ENGINE_CURRENT_FRAME, heap, frames, running,
                   keys, pc, idx, error, log, tickFrame, updates>>

\* main_loop up to the while: enginev0.py activates the first frame if none is
MainLoopEnter ==
    /\ pc = "loaded"
    /\ current_frame' =
          IF variant = "enginev0" /\ current_frame = 0 /\ Len(frames) > 0
          THEN change_frame(frames, current_frame, frames[1].key)
          ELSE current_frame
    /\ pc' = "pump"
    /\ called' = None
    /\ UNCHANGED <<player, invokes, dt, file, variant, project_data, ENGINE_CURRENT_FRAME, heap, frames, running,
                   keys, idx, error, log, tickFrame, updates>>

\* clock.tick(FPS): the milliseconds since the call before, after waiting
\* until the frame period has passed
clock_tick(elapsed) == IF elapsed < 1000 \div FPS THEN 1000 \div FPS ELSE elapsed

\* the pump of a loop that breaks out as soon as it sees the QUIT event
Pump_break(quit, pressed, elapsed) ==
    /\ pc = "pump"
    /\ dt' = clock_tick(elapsed)
    /\ running' = IF quit THEN FALSE ELSE running
    /\ keys' = pressed
    /\ pc' = IF quit THEN "exited" ELSE "switch"
    /\ UNCHANGED <<player, invokes, file, variant, project_data, ENGINE_CURRENT_FRAME, heap, frames,
                   current_frame, idx, error, log, tickFrame, updates, called>>

\* dt = clock.tick(FPS)/1000.0 (kept in milliseconds) and the event pump: a
\* QUIT event clears running; the key state is what the pump has seen
Pump(quit, pressed, elapsed) ==
    /\ pc = "pump"
    /\ dt' = clock_tick(elapsed)
    /\ running' = IF quit THEN FALSE ELSE running
    /\ keys' = pressed
    /\ pc' = "switch"
    /\ UNCHANGED <<player, invokes, file, variant, project_data, ENGINE_CURRENT_FRAME, heap, frames,
                   current_frame, idx, error, log, tickFrame, updates, called>>

\* the loop's own test for a request: "if ENGINE_CURRENT_FRAME" in
\* multimediafuzion4k.py, "is not None" in the other two
has_request(v, pending) ==
    IF IsMM(v) THEN pending # None /\ pending # "" ELSE pending # None

\* the switch step that forgets the request without calling change_frame
switch_step_drop(v, cur, pending) ==
    [current_frame |-> cur, pending |-> None, error |-> None]

\* the switch step that clears the request only when the frame changed
switch_step_keep(v, cur, pending) ==
    IF has_request(v, pending) /\ cur # 0 /\ pending # heap[cur].name
    THEN [current_frame |-> change_frame(frames, cur, pending),
          pending |-> IF dict_get(frames, pending) # 0 THEN None ELSE pending,
          error |-> None]
    ELSE [current_frame |-> cur, pending |-> pending, error |-> None]

\* "Check if we need to jump frames": [current_frame, pending, error] after it
switch_step(v, cur, pending) ==
    IF IsMM(v)
    THEN IF has_request(v, pending) /\ cur # 0 /\ pending # heap[cur].name
         THEN [current_frame |-> change_frame(frames, cur, pending), pending |-> None,
               error |-> None]
         ELSE [current_frame |-> cur, pending |-> pending, error |-> None]
    ELSE IF v = "CatFusion"
    THEN IF ~has_request(v, pending)
         THEN [current_frame |-> cur, pending |-> pending, error |-> None]
         ELSE IF cur = 0
         THEN [current_frame |-> cur, pending |-> pending, error |-> "AttributeError"]
         ELSE IF pending # heap[cur].name
         THEN [current_frame |-> change_frame(frames, cur, pending), pending |-> None,
               error |-> None]
         ELSE [current_frame |-> cur, pending |-> pending, error |-> None]
    ELSE IF ~has_request(v, pending)
         THEN [current_frame |-> cur, pending |-> pending, error |-> None]
         ELSE IF cur = 0 \/ pending # heap[cur].name
         THEN [current_frame |-> change_frame(frames, cur, pending), pending |-> None,
               error |-> None]
         ELSE [current_frame |-> cur, pending |-> None, error |-> None]

\* the switch step of an engine that builds its frames anew when it switches
ApplySwitch_reset ==
    /\ pc = "switch"
    /\ LET r == switch_step(variant, current_frame, ENGINE_CURRENT_FRAME)
       IN  /\ current_frame' = r.current_frame
           /\ ENGINE_CURRENT_FRAME' = r.pending
           /\ error' = r.error
           /\ pc' = IF r.error = None THEN "tick" ELSE "crashed"
           /\ heap' = IF r.current_frame = current_frame THEN heap
                      ELSE load_project(variant, Get(project_data, "frames", <<>>), 1,
                                        [heap |-> <<>>, frames |-> <<>>, error |-> None]).heap
    /\ UNCHANGED <<player, invokes, dt, file, variant, project_data, frames, running, keys, idx, log,
                   tickFrame, updates, called>>

ApplySwitch ==
    /\ pc = "switch"
    /\ LET r == switch_step(variant, current_frame, ENGINE_CURRENT_FRAME)
       IN  /\ current_frame' = r.current_frame
           /\ ENGINE_CURRENT_FRAME' = r.pending
           /\ error' = r.error
           /\ pc' = IF r.error = None THEN "tick" ELSE "crashed"
    /\ UNCHANGED <<player, invokes, dt, file, variant, project_data, heap, frames, running, keys, idx, log,
                   tickFrame, updates, called>>

\* Frame.update: the objects' update(dt), which changes nothing in these
\* classes (no animation frames are ever loaded), then the events
FrameUpdate ==
    /\ pc = "tick"
    /\ current_frame # 0
    /\ idx' = 1
    /\ log' = <<>>
    /\ tickFrame' = current_frame
    /\ pc' = "events"
    /\ UNCHANGED <<player, invokes, dt, file, variant, project_data, ENGINE_CURRENT_FRAME, heap, frames,
                   current_frame, running, keys, error, updates, called>>

\* what an Event sees of the world, and what it leaves
View(frame, pending) == [objects |-> frame.objects, pending |-> pending]

\* EventRun with the conditions of every Event read from the state the tick began in
EventRun_isolated ==
    /\ pc = "events"
    /\ idx <= Len(heap[current_frame].events)
    /\ LET f == heap[current_frame]
           s == IF log = <<>> THEN f ELSE [f EXCEPT !.objects = log[1].before.objects]
           e == f.events[idx]
           r == IF all_checks(e.conditions, 1, s, keys)
                THEN run_actions(e.actions, 1, [frame |-> f, pending |-> ENGINE_CURRENT_FRAME,
                                                executed |-> <<>>])
                ELSE [frame |-> f, pending |-> ENGINE_CURRENT_FRAME, executed |-> <<>>]
       IN  /\ heap' = [heap EXCEPT ![current_frame] = r.frame]
           /\ ENGINE_CURRENT_FRAME' = r.pending
           /\ log' = Append(log, [frame |-> current_frame, evt |-> idx,
                                  executed |-> r.executed,
                                  before |-> View(s, ENGINE_CURRENT_FRAME),
                                  after |-> View(r.frame, r.pending)])
    /\ idx' = idx + 1
    /\ UNCHANGED <<player, invokes, dt, file, variant, project_data, frames, current_frame, running, keys, pc,
                   error, tickFrame, updates, called>>

\* EventRun with a GoToFrame that switches at once
EventRun_switching ==
    /\ pc = "events"
    /\ idx <= Len(heap[current_frame].events)
    /\ LET f == heap[current_frame]
           r == Event_run(f.events[idx], f, ENGINE_CURRENT_FRAME, keys)
       IN  /\ heap' = [heap EXCEPT ![current_frame] = r.frame]
           /\ ENGINE_CURRENT_FRAME' = r.pending
           /\ current_frame' = IF r.pending = None THEN current_frame
                                ELSE change_frame(frames, current_frame, r.pending)
           /\ log' = Append(log, [frame |-> current_frame, evt |-> idx,
                                  executed |-> r.executed,
                                  before |-> View(f, ENGINE_CURRENT_FRAME),
                                  after |-> View(r.frame, r.pending)])
    /\ idx' = IF current_frame' = current_frame THEN idx + 1 ELSE 1
    /\ UNCHANGED <<player, invokes, dt, file, variant, project_data, frames, running, keys, pc,
                   error, tickFrame, updates, called>>

\* EventRun in which executing an action pumps the platform events again
EventRun_pumping ==
    /\ pc = "events"
    /\ idx <= Len(heap[current_frame].events)
    /\ LET f == heap[current_frame]
           r == Event_run(f.events[idx], f, ENGINE_CURRENT_FRAME, keys)
       IN  /\ heap' = [heap EXCEPT ![current_frame] = r.frame]
           /\ ENGINE_CURRENT_FRAME' = r.pending
           /\ keys' = IF r.executed = <<>> THEN keys ELSE {}
           /\ log' = Append(log, [frame |-> current_frame, evt |-> idx,
                                  executed |-> r.executed,
                                  before |-> View(f, ENGINE_CURRENT_FRAME),
                                  after |-> View(r.frame, r.pending)])
    /\ idx' = idx + 1
    /\ UNCHANGED <<player, invokes, dt, file, variant, project_data, frames, current_frame, running, pc,
                   error, tickFrame, updates, called>>

\* e.run(self) for the next Event of the list
EventRun ==
    /\ pc = "events"
    /\ idx <= Len(heap[current_frame].events)
    /\ LET f == heap[current_frame]
           r == Event_run(f.events[idx], f, ENGINE_CURRENT_FRAME, keys)
       IN  /\ heap' = [heap EXCEPT ![current_frame] = r.frame]
           /\ ENGINE_CURRENT_FRAME' = r.pending
           /\ log' = Append(log, [frame |-> current_frame, evt |-> idx,
                                  executed |-> r.executed,
                                  before |-> View(f, ENGINE_CURRENT_FRAME),
                                  after |-> View(r.frame, r.pending)])
    /\ idx' = idx + 1
    /\ UNCHANGED <<player, invokes, dt, file, variant, project_data, frames, current_frame, running, keys, pc,
                   error, tickFrame, updates, called>>

\* after the last Event: draw, display.flip, and the while test
DrawFlip ==
    /\ pc = "events"
    /\ idx > Len(heap[current_frame].events)
    /\ updates' = [updates EXCEPT ![current_frame] = Min(@ + 1, MaxCount)]
    /\ pc' = IF running THEN "pump" ELSE "exited"
    /\ UNCHANGED <<player, invokes, dt, file, variant, project_data, ENGINE_CURRENT_FRAME, heap, frames,
                   current_frame, running, keys, idx, error, log, tickFrame, called>>

\* no active Frame: display.flip and the while test only
FlipOnly ==
    /\ pc = "tick"
    /\ current_frame = 0
    /\ pc' = IF running THEN "pump" ELSE "exited"
    /\ UNCHANGED <<player, invokes, dt, file, variant, project_data, ENGINE_CURRENT_FRAME, heap, frames,
                   current_frame, running, keys, idx, error, log, tickFrame, updates, called>>

\* run_game once more on the engine of the run before, without load_project
NewEngine_reuse ==
    /\ pc = "exited"
    /\ running' = TRUE
    /\ keys' = {}
    /\ pc' = "loaded"
    /\ idx' = 0
    /\ log' = <<>>
    /\ tickFrame' = 0
    /\ called' = None
    /\ UNCHANGED <<player, invokes, dt, file, variant, project_data, ENGINE_CURRENT_FRAME, heap, frames,
                   current_frame, updates, error>>

\* run_game once more: a new FusionCloneEngine; the module globals stay
NewEngine ==
    /\ pc = "exited"
    /\ heap' = <<>>
    /\ frames' = <<>>
    /\ current_frame' = 0
    /\ running' = TRUE
    /\ keys' = {}
    /\ pc' = "new"
    /\ idx' = 0
    /\ log' = <<>>
    /\ tickFrame' = 0
    /\ updates' = <<>>
    /\ called' = None
    /\ UNCHANGED <<player, invokes, dt, file, variant, project_data, ENGINE_CURRENT_FRAME, error>>

Next ==
    \/ LoadProject
    \/ \E n \in FrameNames : ChangeFrame(n)
    \/ MainLoopEnter
    \/ \E quit \in BOOLEAN, pressed \in SUBSET PygameKeys, elapsed \in Elapsed :
          Pump(quit, pressed, elapsed)
    \/ ApplySwitch
    \/ FrameUpdate
    \/ EventRun
    \/ DrawFlip
    \/ FlipOnly
    \/ NewEngine

Spec == Init /\ [][Next]_vars

(***************************************************************************)
(* Properties                                                              *)
(***************************************************************************)
\* a step that is one Event.run call
IsEventRun == pc = "events" /\ Len(log') = Len(log) + 1

\* the frame names of the GoToFrame actions among some executed actions
GoToNames(ex) ==
    LET g == SelectSeq(ex, LAMBDA a : a.cls = "GoToFrame")
    IN  [k \in 1..Len(g) |-> g[k].frame_name]

\* the frame names requested by GoToFrame during a tick, in execution order
RECURSIVE Requests(_)
Requests(l) ==
    IF l = <<>> THEN <<>>
    ELSE Requests(SubSeq(l, 1, Len(l) - 1)) \o GoToNames(Last(l).executed)

\* frame_name in self.frames
Loaded(n) == \E i \in 1..Len(frames) : frames[i].key = n

\* C1: in Event.run the Event's actions are executed, all of them and in
\* order, exactly when every condition is true of the frame state the call
\* starts from; when one is false no action runs and nothing changes.
C1_EventRunsIffAllConditions ==
    [][IsEventRun =>
        LET f == heap[current_frame]
            e == f.events[idx]
            allTrue == \A k \in 1..Len(e.conditions) : check(e.conditions[k], f, keys)
        IN  /\ allTrue => Last(log').executed = e.actions
            /\ ~allTrue => /\ Last(log').executed = <<>>
                           /\ heap' = heap
                           /\ ENGINE_CURRENT_FRAME' = ENGINE_CURRENT_FRAME]_vars

\* C1 witness: in one tick an Event ran its actions, and an Event with two
\* conditions and an action, its first condition true, did not
C1_Witness ==
    /\ pc = "events"
    /\ \E i, j \in 1..Len(log) :
          LET ej == heap[log[j].frame].events[log[j].evt]
          IN  /\ log[i].executed # <<>>
              /\ log[j].executed = <<>>
              /\ Len(ej.conditions) = 2
              /\ Len(ej.actions) > 0
              /\ check(ej.conditions[1], [objects |-> log[j].before.objects], keys)

\* C2: a GoToFrame executed during a tick of frame F leaves F the active
\* frame for the rest of that tick: every Event.run of the tick is given F,
\* the Events of F run in order to the last one, and current_frame is
\* assigned only before the loop or by the switch step of the loop.
C2_SwitchNotMidTick ==
    [][/\ (pc \in {"tick", "events"} => current_frame' = current_frame)
       /\ (pc' = "events" =>
              /\ current_frame' = tickFrame'
              /\ Len(log') = idx' - 1
              /\ \A i \in 1..Len(log') : log'[i].frame = tickFrame' /\ log'[i].evt = i)
       /\ (pc = "events" /\ pc' # "events" =>
              Len(log) = Len(heap[current_frame].events))]_vars

\* C2 witness: the tick of a frame with three Events is over, the first one
\* executed GoToFrame for another loaded frame, and all three ran on the frame
C2_Witness ==
    /\ pc = "events"
    /\ idx > Len(heap[current_frame].events)
    /\ Len(log) = 3
    /\ Len(Requests(<<log[1]>>)) = 1
    /\ Loaded(Requests(<<log[1]>>)[1])
    /\ Requests(<<log[1]>>)[1] # heap[current_frame].name
    /\ log[3].frame = current_frame

\* the switch step of the loop
IsSwitch == pc = "switch" /\ pc' # "switch"

\* C3 as stated: any GoToFrame(X) executed in tick N, X a loaded frame other
\* than the active one, makes X the active frame at the switch step of
\* iteration N+1.
C3_AnyRequestSwitches ==
    [][(IsSwitch /\ tickFrame # 0) =>
        \A k \in 1..Len(Requests(log)) :
            LET X == Requests(log)[k]
            IN  (Loaded(X) /\ X # heap[tickFrame].name) =>
                    (current_frame' # 0 /\ heap[current_frame'].name = X)]_vars

\* C3, amended: when the last GoToFrame executed in tick N names a loaded
\* frame X other than the active one, the switch step of iteration N+1 makes
\* X the active frame, and X is the frame updated in iteration N+1.
C3_LastRequestSwitches ==
    [][LET rq == Requests(log)
       IN  (tickFrame # 0 /\ rq # <<>> /\ Loaded(Last(rq))
                /\ Last(rq) # heap[tickFrame].name) =>
             /\ IsSwitch => /\ current_frame' = dict_get(frames, Last(rq))
                            /\ heap[current_frame'].name = Last(rq)
                            /\ pc' = "tick"
             /\ pc = "tick" => /\ pc' = "events"
                               /\ heap[tickFrame'].name = Last(rq)]_vars

\* C3 witness: Menu, whose single Event executed GoToFrame(Level1) in the
\* last tick, has been replaced by Level1 at the switch step
C3_Witness ==
    /\ pc = "tick"
    /\ tickFrame # 0
    /\ heap[tickFrame].name = "Menu"
    /\ Len(heap[tickFrame].events) = 1
    /\ Requests(log) = <<"Level1">>
    /\ current_frame # 0
    /\ heap[current_frame].name = "Level1"

Reached(e, k, os) ==
    \A m \in 1..(k - 1) : check(e.conditions[m], [objects |-> os], keys)

\* C5: once a DestroyObject(name) has executed in a tick, every
\* ObjectCollision condition naming that object which a later Event of the
\* same tick evaluates is false.
C5_DestroyedNeverCollides ==
    \A i, j \in 1..Len(log) :
        i < j =>
          \A a \in 1..Len(log[i].executed) :
            log[i].executed[a].cls = "DestroyObject" =>
              LET n  == log[i].executed[a].obj_name
                  ej == heap[log[j].frame].events[log[j].evt]
                  os == log[j].before.objects
              IN  \A k \in 1..Len(ej.conditions) :
                      (/\ ej.conditions[k].cls = "ObjectCollision"
                       /\ n \in {ej.conditions[k].obj_a, ej.conditions[k].obj_b}
                       /\ Reached(ej, k, os))
                      => ~check(ej.conditions[k], [objects |-> os], keys)

\* C6: Frame.update runs the Events in list order, each once per tick, and
\* each Event is given the frame as the Event before it left it: its
\* conditions and actions see the objects, the counter values and the pending
\* request of that state, not those the tick began with.
C6_EventsInOrderOnLiveState ==
    [][/\ IsEventRun =>
            LET en == Last(log')
                e  == heap[current_frame].events[idx]
            IN  /\ en.evt = Len(log) + 1
                /\ en.before = View(heap[current_frame], ENGINE_CURRENT_FRAME)
                /\ Len(log) > 0 => en.before = Last(log).after
                /\ en.executed # <<>> =>
                      \A k \in 1..Len(e.conditions) :
                          check(e.conditions[k], [objects |-> en.before.objects], keys)
                /\ en.after = View(heap'[current_frame], ENGINE_CURRENT_FRAME')
       /\ (pc = "events" /\ pc' # "events") =>
            /\ Len(log) = Len(heap[current_frame].events)
            /\ \A i \in 1..Len(log) : log[i].evt = i]_vars

\* C6 witness: an Event after the first one has run, and one of its
\* conditions has another value on the state it was given than on the state
\* the tick began with
C6_Witness ==
    /\ pc = "events"
    /\ \E i \in 2..Len(log) :
          LET e == heap[log[i].frame].events[log[i].evt]
          IN  \E k \in 1..Len(e.conditions) :
                  check(e.conditions[k], [objects |-> log[i].before.objects], keys)
                  # check(e.conditions[k], [objects |-> log[1].before.objects], keys)

\* the declarations whose type is registered, in declared order
RECURSIVE Kept(_, _)
Kept(ds, reg) ==
    IF ds = <<>> THEN <<>>
    ELSE IF Head(ds).type \in reg THEN <<Head(ds)>> \o Kept(Tail(ds), reg)
    ELSE Kept(Tail(ds), reg)

\* the instances built are those of the declarations ds, one for one
Built(insts, ds) ==
    /\ Len(insts) = Len(ds)
    /\ \A k \in 1..Len(ds) :
          /\ insts[k].cls = ds[k].type
          /\ ds[k].type = "GoToFrame" => insts[k].frame_name = ds[k].params.frame_name
          /\ ds[k].type = "DestroyObject" => insts[k].obj_name = ds[k].params.obj_name
          /\ ds[k].type = "KeyPressed" => insts[k].key = ds[k].params.key

\* every value declared for CompareCounter or SetCounterValue is a number
WellFormedValues ==
    \A i \in 1..Len(project_data.frames) :
      \A j \in 1..Len(project_data.frames[i].events) :
        LET d == project_data.frames[i].events[j]
        IN  \A k \in 1..Len(d.conditions \o d.actions) :
              LET x == (d.conditions \o d.actions)[k]
              IN  x.type \in {"CompareCounter", "SetCounterValue"} =>
                      x.params.value \in {"", "0", "5", "10"}

\* C7: load_project of a document whose values are well formed does not
\* raise on a type name no registry knows: every
\* declared frame and Event is built, each Event holding exactly the
\* conditions and actions of registered types, in declared order, and every
\* declared object is built.
C7_UnregisteredTypesSkipped ==
    (pc # "new" /\ WellFormedValues) =>
      LET fs == project_data.frames
      IN  /\ error = None \/ pc = "crashed"
          /\ Len(heap) = Len(fs)
          /\ \A i \in 1..Len(fs) :
                /\ heap[i].name = fs[i].name
                /\ dict_get(frames, fs[i].name) = i
                /\ pc = "loaded" => Len(heap[i].objects) = Len(fs[i].objects)
                /\ Len(heap[i].events) = Len(fs[i].events)
                /\ \A j \in 1..Len(fs[i].events) :
                      /\ Built(heap[i].events[j].conditions,
                               Kept(fs[i].events[j].conditions, registered_conditions(variant)))
                      /\ Built(heap[i].events[j].actions,
                               Kept(fs[i].events[j].actions, registered_actions(variant)))

\* C7 witness: the document is loaded and one of its Events declares an
\* unknown condition type and an unknown action type ahead of known ones,
\* which the runtime Event holds
C7_Witness ==
    /\ pc = "loaded"
    /\ \E i \in 1..Len(project_data.frames) :
          \E j \in 1..Len(project_data.frames[i].events) :
              LET d == project_data.frames[i].events[j]
                  e == heap[i].events[j]
              IN  /\ Len(d.conditions) > 1 /\ Len(d.actions) > 1
                  /\ d.conditions[1].type = "MouseClicked"
                  /\ d.actions[1].type = "PlaySound"
                  /\ Len(e.conditions) = Len(d.conditions) - 1
                  /\ Len(e.actions) = Len(d.actions) - 1
                  /\ Len(e.conditions) > 0

\* the six comparison operators
Rel(op, x, y) ==
    \/ op = "==" /\ x = y
    \/ op = "!=" /\ x # y
    \/ op = "<"  /\ x < y
    \/ op = "<=" /\ x <= y
    \/ op = ">"  /\ x > y
    \/ op = ">=" /\ x >= y

\* C8: CompareCounter(counter_name, op, v).check(frame) is true exactly when
\* the frame holds an object of that name that is a counter whose value is in
\* relation op to v.
C8_CompareCounterExact ==
    \A i \in 1..Len(heap) :
      \A n \in {"Score", "Player", "Ghost"} :
        \A op \in {"==", "!=", "<", "<=", ">", ">=", "=>"} :
          \A v \in {0, 5, 10} :
            CompareCounter_check([cls |-> "CompareCounter", counter_name |-> n,
                                  operator |-> op, value |-> v], heap[i])
            <=> \E k \in 1..Len(heap[i].objects) :
                    /\ heap[i].objects[k].name = n
                    /\ heap[i].objects[k].kind = "CounterObject"
                    /\ Rel(op, heap[i].objects[k].value, v)

\* Event j of runtime frame i is CompareCounter(n, "==", a) -> SetCounterValue(n, b)
\* with b # a, the frame declares a counter named n with value a, and no other
\* Event of the frame sets or destroys n
CounterScenario(i, j) ==
    LET e  == heap[i].events[j]
        os == project_data.frames[i].objects
    IN  /\ Len(e.conditions) = 1 /\ Len(e.actions) = 1
        /\ e.conditions[1].cls = "CompareCounter"
        /\ e.conditions[1].operator = "=="
        /\ e.actions[1].cls = "SetCounterValue"
        /\ e.actions[1].counter_name = e.conditions[1].counter_name
        /\ e.actions[1].value # e.conditions[1].value
        /\ \E k \in 1..Len(os) :
              /\ os[k].name = e.conditions[1].counter_name
              /\ os[k].type = "CounterObject"
              /\ os[k].initial_value = e.conditions[1].value
        /\ \A m \in (1..Len(heap[i].events)) \ {j} :
              \A k \in 1..Len(heap[i].events[m].actions) :
                  LET a == heap[i].events[m].actions[k]
                  IN  /\ a.cls = "SetCounterValue" => a.counter_name # e.conditions[1].counter_name
                      /\ a.cls = "DestroyObject" => a.obj_name # e.conditions[1].counter_name

\* the value of the counter named n in frame f
CounterValue(f, n) ==
    LET cs == {k \in 1..Len(f.objects) :
                  f.objects[k].name = n /\ f.objects[k].kind = "CounterObject"}
    IN  f.objects[CHOOSE k \in cs : \A m \in cs : k <= m].value

\* C9: with a counter of value a and the Event CompareCounter(name, "==", a) ->
\* SetCounterValue(name, b), b # a: the Event fires in the first tick of its
\* frame and in no later one, and from the end of the first tick on the
\* counter's value is b.
C9_CounterSetOnce ==
    [][\A i \in 1..Len(heap) :
         \A j \in 1..Len(heap[i].events) :
           CounterScenario(i, j) =>
             LET n == heap[i].events[j].conditions[1].counter_name
                 a == heap[i].events[j].conditions[1].value
                 b == heap[i].events[j].actions[1].value
             IN  /\ (IsEventRun /\ current_frame = i /\ idx = j) =>
                       /\ Last(log').executed # <<>> <=> updates[i] = 0
                       /\ CounterValue(heap'[i], n) = b
                       /\ updates[i] = 0 => CounterValue(heap[i], n) = a
                 /\ (Len(heap') = Len(heap) /\ updates'[i] >= 1) =>
                       CounterValue(heap'[i], n) = b]_vars

\* C10: change_frame(name) leaves the engine, on return, with the frame
\* stored under that name as the active frame if there is one, and with the
\* active frame it had (or none) otherwise; it changes nothing else.
C10_ChangeFrameSynchronous ==
    [][(pc \in {"new", "loaded"} /\ pc' = pc) =>
          /\ Loaded(called') =>
                \E i \in 1..Len(frames) :
                    /\ frames[i].key = called'
                    /\ current_frame' = frames[i].ref
                    /\ heap[current_frame'].name = called'
          /\ ~Loaded(called') => current_frame' = current_frame
          /\ UNCHANGED <<player, invokes, dt, file, variant, project_data, ENGINE_CURRENT_FRAME, heap, frames,
                         running, keys, idx, error, log, tickFrame, updates>>]_vars

\* C10 witness: change_frame was last called with a name that is not loaded,
\* and the frame activated by an earlier call is still the active one
C10_Witness ==
    /\ pc = "loaded"
    /\ called = "Nowhere"
    /\ current_frame # 0
    /\ heap[current_frame].name = "Level1"

ObjNames == {"Player", "Enemy", "Score", "Ghost"}

\* no sprite of frame f has the name n
Absent(f, n) == \A k \in 1..Len(f.objects) : f.objects[k].name # n

\* C12: on a frame that holds no object of the name given, ObjectCollision
\* and CompareCounter are false, and DestroyObject, ChangeObjectColor and
\* SetCounterValue leave the objects and the pending request as they are.
C12_AbsentObjectIsNotPresent ==
    \A i \in 1..Len(heap) :
      \A n \in ObjNames :
        Absent(heap[i], n) =>
          /\ \A m \in ObjNames :
                /\ ~check([cls |-> "ObjectCollision", obj_a |-> n, obj_b |-> m], heap[i], keys)
                /\ ~check([cls |-> "ObjectCollision", obj_a |-> m, obj_b |-> n], heap[i], keys)
          /\ \A op \in {"==", "!=", "<", "<=", ">", ">="} : \A v \in {0, 5, 10} :
                ~check([cls |-> "CompareCounter", counter_name |-> n, operator |-> op,
                        value |-> v], heap[i], keys)
          /\ \A p \in {None, "Level1"} :
                LET st == [frame |-> heap[i], pending |-> p, executed |-> <<>>]
                IN  /\ execute([cls |-> "DestroyObject", obj_name |-> n], st) = st
                    /\ \A c \in {"(0,255,0)", "red"} :
                          execute([cls |-> "ChangeObjectColor", obj_name |-> n,
                                   color_str |-> c], st) = st
                    /\ \A v \in {0, 10} :
                          execute([cls |-> "SetCounterValue", counter_name |-> n,
                                   value |-> v], st) = st

\* C12 witness: in this tick an Event executed DestroyObject on a name that
\* an earlier tick had destroyed, and a later Event evaluated a collision
\* with that name
C12_Witness ==
    /\ pc = "events"
    /\ \E i, j \in 1..Len(log) :
          LET ej == heap[log[j].frame].events[log[j].evt]
              fi == [objects |-> log[i].before.objects]
          IN  /\ i < j
              /\ Len(log[i].executed) = 1
              /\ log[i].executed[1].cls = "DestroyObject"
              /\ Absent(fi, log[i].executed[1].obj_name)
              /\ log[i].after = log[i].before
              /\ Len(ej.conditions) = 1
              /\ ej.conditions[1].cls = "ObjectCollision"
              /\ ej.conditions[1].obj_b = log[i].executed[1].obj_name
              /\ log[j].executed = <<>>

\* C13: a malformed parameter value never produces an error: load_project
\* builds every declared frame and raises nothing, an Event whose condition
\* holds the malformed value never fires, and an Event whose only action
\* holds it leaves the frame and the pending request as they were.
C13_MalformedValueNoError ==
    /\ error # "ValueError"
    /\ pc # "new" => Len(heap) = Len(project_data.frames)
    /\ \A i \in 1..Len(log) :
          LET d == project_data.frames[log[i].frame].events[log[i].evt]
          IN  /\ (\E k \in 1..Len(d.conditions) :
                     /\ d.conditions[k].type \in registered_conditions(variant)
                     /\ d.conditions[k].type = "CompareCounter"
                     /\ d.conditions[k].params.value \notin {"", "0", "5", "10"})
                 => log[i].executed = <<>>
              /\ (/\ Len(d.actions) = 1
                  /\ d.actions[1].type = "ChangeObjectColor"
                  /\ "red" \in {Get(d.actions[1].params, "color_str", ""),
                                Get(d.actions[1].params, "color", "")})
                 => log[i].after = log[i].before

\* C14: load_project skips a declared object whose type is not in the
\* object-type registry: the frame holds no object of that name, every other
\* declared object, every Event and every frame is built, and nothing is raised.
C14_UnknownObjectTypeSkipped ==
    (pc = "loaded" /\ WellFormedValues) =>
      /\ error = None
      /\ Len(heap) = Len(project_data.frames)
      /\ \A i \in 1..Len(project_data.frames) :
            LET os == project_data.frames[i].objects
            IN  /\ Len(heap[i].events) = Len(project_data.frames[i].events)
                /\ \A k \in 1..Len(os) :
                      IF os[k].type \in registered_object_types
                      THEN ~Absent(heap[i], os[k].name)
                      ELSE Absent(heap[i], os[k].name)

(***************************************************************************)
(* The editor: the operations that write objects into project_data before  *)
(* run_game builds an engine from it.                                      *)
(***************************************************************************)
\* objects a frame may take in the editor
MaxObjects == 2

\* f"Obj{n}"
ObjName == [n \in 1..9 |-> CASE n = 1 -> "Obj1" [] n = 2 -> "Obj2" [] n = 3 -> "Obj3"
                             [] n = 4 -> "Obj4" [] OTHER -> "ObjN"]

\* what the user types into the name entry of the inspector
TypedNames == {"Obj1", "Obj2", "Hero"}

\* where the user clicks on the canvas
ClickXs == {0, 40}

\* FusionCloneEditorApp.__init__: the default frames Menu and Level1, no objects
EditorInit ==
    /\ variant = "multimediafuzion4k"
    /\ project_data = [frames |-> <<FrameD("Menu", <<40, 40, 40>>, <<>>, <<>>),
                                    FrameD("Level1", <<80, 80, 220>>, <<>>, <<>>)>>]
    /\ ENGINE_CURRENT_FRAME = None
    /\ heap = <<>>
    /\ frames = <<>>
    /\ current_frame = 0
    /\ running = TRUE
    /\ keys = {}
    /\ pc = "new"
    /\ idx = 0
    /\ error = None
    /\ log = <<>>
    /\ tickFrame = 0
    /\ updates = <<>>
    /\ called = None
    /\ dt = 0
    /\ player = None
    /\ invokes = 0
    /\ file = None

\* SceneEditor.on_click on an empty spot of frame f: a new ActiveObject named
\* after the number of objects the frame holds
on_click(f, x) ==
    /\ pc = "new"
    /\ Len(project_data.frames[f].objects) < MaxObjects
    /\ project_data' =
          [project_data EXCEPT !.frames[f].objects =
              Append(@, ActiveD(ObjName[Len(@) + 1], x, x))]
    /\ UNCHANGED <<player, invokes, dt, file, variant, ENGINE_CURRENT_FRAME, heap, frames, current_frame, running,
                   keys, pc, idx, error, log, tickFrame, updates, called>>

\* PropertyInspector.on_apply for the object obj_name of frame f, the name
\* entry changed to typed: every field is written back to the first object of
\* that name; the entries of the fields the object did not have are empty
on_apply(f, obj_name, typed) ==
    /\ pc = "new"
    /\ \E k \in 1..Len(project_data.frames[f].objects) :
          /\ project_data.frames[f].objects[k].name = obj_name
          /\ \A m \in 1..(k - 1) : project_data.frames[f].objects[m].name # obj_name
          /\ project_data' =
                [project_data EXCEPT !.frames[f].objects[k] =
                    [type |-> @.type, name |-> typed, x |-> @.x, y |-> @.y, w |-> @.w,
                     h |-> @.h, color |-> @.color, text |-> "", font_size |-> 0,
                     initial_value |-> 0]]
    /\ UNCHANGED <<player, invokes, dt, file, variant, ENGINE_CURRENT_FRAME, heap, frames, current_frame, running,
                   keys, pc, idx, error, log, tickFrame, updates, called>>

EditorNext ==
    \/ \E f \in 1..2, x \in ClickXs : on_click(f, x)
    \/ \E f \in 1..2, n \in TypedNames, t \in TypedNames : on_apply(f, n, t)
    \/ LoadProject

EditorSpec == EditorInit /\ [][EditorNext]_vars

InLoop == pc \in {"pump", "switch", "tick", "events"}

\* C16: the loop has one exit path: running becomes false only in the event
\* pump, on a quit event; the loop is left only with running false; and no
\* iteration starts once running is false.
C16_QuitIsTheOnlyExit ==
    [][/\ (running /\ ~running') => (pc = "pump" /\ pc' = "switch")
       /\ (InLoop /\ pc' \notin {"pump", "switch", "tick", "events"}) => ~running
       /\ (InLoop /\ ~running) => pc' # "pump"]_vars

(***************************************************************************)
(* The project file of enginev0.py.  JSON text is its syntax tree: an      *)
(* object is a sequence of members [k, v] in the order written, an array a *)
(* sequence of items.  Python values are records, sequences, strings and   *)
(* integers.                                                               *)
(***************************************************************************)
\* the last member of an object with key k (json.load keeps the last one)
member(node, k) ==
    LET hits == {i \in 1..Len(node.members) : node.members[i].k = k}
    IN  node.members[CHOOSE i \in hits : \A j \in hits : j <= i].v

\* json.load: the Python value of a JSON text
RECURSIVE json_load(_)
json_load(node) ==
    CASE node.t = "object" ->
           [k \in {node.members[i].k : i \in 1..Len(node.members)} |->
               json_load(member(node, k))]
      [] node.t = "array"  -> [i \in 1..Len(node.items) |-> json_load(node.items[i])]
      [] node.t = "string" -> node.s
      [] node.t = "number" -> node.n

\* the keys of the project documents, by the type of the value they hold
NumberKeys == {"x", "y", "w", "h", "font_size", "initial_value"}
DictListKeys == {"frames", "objects", "events", "conditions", "actions"}

\* the order in which the editor's dicts hold their keys
KeyOrder ==
    <<"frames", "name", "bg_color", "objects", "events", "type", "x", "y", "w", "h",
      "color", "text", "font_size", "initial_value", "conditions", "actions", "params",
      "key", "obj_name_a", "obj_name_b", "obj_a", "obj_b", "counter_name", "operator",
      "value", "obj_name", "color_str", "frame_name", "button", "file">>

\* KeyOrder read backwards, and rotated: the orders of files written by hand
\* or by another program
KeyOrderRev == [i \in 1..Len(KeyOrder) |-> KeyOrder[Len(KeyOrder) + 1 - i]]
KeyOrderRot == [i \in 1..Len(KeyOrder) |-> KeyOrder[((i + 2) % Len(KeyOrder)) + 1]]

\* json.dump of a dict whose keys come in the given order: every key with
\* its value, nested dicts and lists written the same way
RECURSIVE render(_, _)
render(d, order) ==
    LET ks == SelectSeq(order, LAMBDA k : k \in DOMAIN d)
        val(k) ==
            CASE k \in DictListKeys ->
                   [t |-> "array", items |-> [i \in 1..Len(d[k]) |-> render(d[k][i], order)]]
              [] k = "bg_color" ->
                   [t |-> "array",
                    items |-> [i \in 1..Len(d[k]) |-> [t |-> "number", n |-> d[k][i]]]]
              [] k = "params" -> render(d[k], order)
              [] k \in NumberKeys -> [t |-> "number", n |-> d[k]]
              [] OTHER -> [t |-> "string", s |-> d[k]]
    IN  [t |-> "object", members |-> [i \in 1..Len(ks) |-> [k |-> ks[i], v |-> val(ks[i])]]]

\* json.dump that writes the frames without their objects and events
json_dump_shallow(d) ==
    render([frames |-> [i \in 1..Len(d.frames) |->
                           [name |-> d.frames[i].name, bg_color |-> d.frames[i].bg_color]]],
           KeyOrder)

\* json.dump(project_data, f, indent=2)
json_dump(d) == render(d, KeyOrder)

\* the documents found on disk
FileDocs ==
    { [frames |-> <<FrameD("Menu", <<40, 40, 40>>, os, es), Level1D>>] :
          os \in {ObjsPlain, ObjsRenamed}, es \in EvLists("enginev0") }
    \cup { [frames |-> <<>>], [frames |-> <<Level1D>>] }

Files == {render(d, o) : d \in FileDocs, o \in {KeyOrderRev, KeyOrderRot}}

FileInit ==
    /\ variant = "enginev0"
    /\ project_data = [frames |-> <<>>]
    /\ file \in Files
    /\ ENGINE_CURRENT_FRAME = None
    /\ heap = <<>>
    /\ frames = <<>>
    /\ current_frame = 0
    /\ running = TRUE
    /\ keys = {}
    /\ pc = "new"
    /\ idx = 0
    /\ error = None
    /\ log = <<>>
    /\ tickFrame = 0
    /\ updates = <<>>
    /\ called = None
    /\ dt = 0
    /\ player = None
    /\ invokes = 0

\* FusionCloneEditor.new_project
new_project ==
    /\ project_data' = [frames |-> <<>>]
    /\ UNCHANGED <<player, invokes, dt, file, variant, ENGINE_CURRENT_FRAME, heap, frames, current_frame,
                   running, keys, pc, idx, error, log, tickFrame, updates, called>>

\* FusionCloneEditor.open_project: project_data = json.load(f); the list and
\* the two editors are refreshed from it
open_project ==
    /\ project_data' = json_load(file)
    /\ UNCHANGED <<player, invokes, dt, file, variant, ENGINE_CURRENT_FRAME, heap, frames, current_frame,
                   running, keys, pc, idx, error, log, tickFrame, updates, called>>

\* FusionCloneEditor.save_project on the current file
save_project ==
    /\ file' = json_dump(project_data)
    /\ UNCHANGED <<player, invokes, dt, variant, project_data, ENGINE_CURRENT_FRAME, heap, frames,
                   current_frame, running, keys, pc, idx, error, log, tickFrame, updates,
                   called>>

FileNext == new_project \/ open_project \/ save_project

FileSpec == FileInit /\ [][FileNext]_vars

\* two JSON texts say the same: objects with the same keys and the same
\* value under each key, arrays with the same items in the same order
RECURSIVE SemEq(_, _)
SemEq(a, b) ==
    /\ a.t = b.t
    /\ CASE a.t = "object" ->
              /\ {a.members[i].k : i \in 1..Len(a.members)}
                   = {b.members[i].k : i \in 1..Len(b.members)}
              /\ Len(a.members) = Len(b.members)
              /\ \A i \in 1..Len(a.members) : \A j \in 1..Len(b.members) :
                    a.members[i].k = b.members[j].k => SemEq(a.members[i].v, b.members[j].v)
         [] a.t = "array" ->
              /\ Len(a.items) = Len(b.items)
              /\ \A i \in 1..Len(a.items) : SemEq(a.items[i], b.items[i])
         [] a.t = "string" -> a.s = b.s
         [] a.t = "number" -> a.n = b.n

\* C17: save_project on a document that is what open_project read from the
\* file, with no edit, writes a file that says the same as the one read: the
\* same frames in the same order, each with the same name, bg_color, objects
\* and events.
C17_OpenSaveRoundTrip ==
    [][project_data = json_load(file) => SemEq(file', file)]_vars

\* C17 witness: the file holds what save_project wrote for a document of two
\* frames with objects and events, opened from a file written in another order
C17_Witness ==
    /\ file \notin Files
    /\ file = json_dump(project_data)
    /\ Len(project_data.frames) = 2
    /\ Len(project_data.frames[1].objects) > 2
    /\ Len(project_data.frames[1].events) > 1
    /\ SemEq(file, render(project_data, KeyOrderRev))

\* C18: no step of an engine changes project_data, and every load_project,
\* also the one of a later run, builds every declared object of every frame
\* with its declared name, position, color and initial value, whatever the
\* runs before destroyed, recolored or set.
C18_ProjectDataUntouched ==
    [][/\ project_data' = project_data
       /\ (pc' = "loaded" /\ WellFormedValues) =>
             \A i \in 1..Len(project_data.frames) :
                LET os == project_data.frames[i].objects
                    f  == heap'[dict_get(frames', project_data.frames[i].name)]
                IN  /\ Len(f.objects) = Len(os)
                    /\ \A k \in 1..Len(os) :
                          /\ f.objects[k].name = os[k].name
                          /\ f.objects[k].x = os[k].x
                          /\ f.objects[k].y = os[k].y
                          /\ f.objects[k].fill = ColorLit[os[k].color]
                          /\ (IsMM(variant) /\ os[k].type = "CounterObject") =>
                                f.objects[k].value = os[k].initial_value]_vars

\* C18 witness: a new engine has loaded the document after a run in which
\* the Events [KeyPressed -> GoToFrame(Level1)] and [KeyPressed ->
\* DestroyObject(Enemy)] of Menu fired, and its Menu holds Enemy
C18_Witness ==
    /\ pc = "loaded"
    /\ ENGINE_CURRENT_FRAME = "Level1"
    /\ Len(project_data.frames) = 2
    /\ Len(project_data.frames[1].events) = 3
    /\ project_data.frames[1].events[1] = EvGo
    /\ project_data.frames[1].events[2] = EvDestroy
    /\ project_data.frames[1].objects = ObjsPlain
    /\ ~Absent(heap[1], "Enemy")

\* C19: a fired Event executes its actions in declared order, each on the
\* state the one before left: after [DestroyObject(X), SetCounterValue(X, v)]
\* the frame is as DestroyObject(X) alone leaves it and holds no X; after
\* [SetCounterValue(X, v), DestroyObject(X)] the frame is as DestroyObject(X)
\* leaves the frame in which X was set to v.
C19_ActionsInOrderOnLiveState ==
    [][IsEventRun =>
        LET en  == Last(log')
            e   == heap[current_frame].events[idx]
            st0 == [frame |-> heap[current_frame], pending |-> ENGINE_CURRENT_FRAME,
                    executed |-> <<>>]
        IN  /\ en.executed # <<>> => en.executed = e.actions
            /\ (/\ Len(en.executed) = 2
                /\ en.executed[1].cls = "DestroyObject"
                /\ en.executed[2].cls = "SetCounterValue"
                /\ en.executed[2].counter_name = en.executed[1].obj_name) =>
                  /\ en.after.objects = execute(en.executed[1], st0).frame.objects
                  /\ Absent(heap'[current_frame], en.executed[1].obj_name)
            /\ (/\ Len(en.executed) = 2
                /\ en.executed[1].cls = "SetCounterValue"
                /\ en.executed[2].cls = "DestroyObject"
                /\ en.executed[2].obj_name = en.executed[1].counter_name) =>
                  en.after.objects =
                      execute(en.executed[2], execute(en.executed[1], st0)).frame.objects]_vars

\* C20: a frame name recorded by GoToFrame is consumed by the switch step of
\* the next loop iteration: whenever that step completes, no request is
\* pending after it, whether the name resolved, did not resolve or names the
\* frame that is already active.
C20_RequestConsumedOnce ==
    [][(IsSwitch /\ error' = None) => ~has_request(variant, ENGINE_CURRENT_FRAME')]_vars

\* C21: a loop iteration entered with no active frame raises no error in its
\* switch step, whatever request is pending, and while no frame is active it
\* updates and draws none.
C21_NoActiveFrameIterationIsQuiet ==
    [][/\ (pc = "switch" /\ current_frame = 0) => error' = None
       /\ (pc = "tick" /\ current_frame = 0) =>
             (heap' = heap /\ updates' = updates /\ log' = log /\ error' = None)]_vars

(***************************************************************************)
(* The frame list of the enginev0.py editor                                *)
(***************************************************************************)
MaxFrames == 3

\* f"Frame{n}"
FrameName(n) == <<"Frame1", "Frame2", "Frame3", "Frame4", "Frame5">>[n]

\* the editor after start (the module's project_data) or after a project
\* with two frames was opened
FramesInit ==
    /\ variant = "enginev0"
    /\ project_data \in { [frames |-> <<>>],
                          [frames |-> <<FrameD("Menu", <<40, 40, 40>>, ObjsPlain, <<EvGo>>),
                                        Level1D>>] }
    /\ file = None
    /\ ENGINE_CURRENT_FRAME = None
    /\ heap = <<>>
    /\ frames = <<>>
    /\ current_frame = 0
    /\ running = TRUE
    /\ keys = {}
    /\ pc = "new"
    /\ idx = 0
    /\ error = None
    /\ log = <<>>
    /\ tickFrame = 0
    /\ updates = <<>>
    /\ called = None
    /\ dt = 0
    /\ player = None
    /\ invokes = 0

\* FusionCloneEditor.add_frame; the editor window is hidden while a game runs
add_frame ==
    /\ pc = "new"
    /\ Len(project_data.frames) < MaxFrames
    /\ project_data' =
          [project_data EXCEPT !.frames =
              Append(@, FrameD(FrameName(Len(project_data.frames) + 1), <<0, 0, 0>>,
                               <<>>, <<>>))]
    /\ UNCHANGED <<player, invokes, dt, file, variant, ENGINE_CURRENT_FRAME, heap, frames, current_frame,
                   running, keys, pc, idx, error, log, tickFrame, updates, called>>

\* FusionCloneEditor.remove_frame with the list entry `index` selected
remove_frame(index) ==
    /\ pc = "new"
    /\ index \in 1..Len(project_data.frames)
    /\ project_data' =
          [project_data EXCEPT !.frames =
              [k \in 1..(Len(@) - 1) |-> IF k < index THEN @[k] ELSE @[k + 1]]]
    /\ UNCHANGED <<player, invokes, dt, file, variant, ENGINE_CURRENT_FRAME, heap, frames, current_frame,
                   running, keys, pc, idx, error, log, tickFrame, updates, called>>

FramesNext ==
    \/ add_frame
    \/ \E index \in 1..MaxFrames : remove_frame(index)
    \/ Next

FramesSpec == FramesInit /\ [][FramesNext]_vars

\* C22: after any add_frame and remove_frame operations the frames of the
\* project data have pairwise distinct names, and load_project leaves one
\* entry in the engine's frame table per declared frame.
C22_FrameNamesUnique ==
    /\ \A i, j \in 1..Len(project_data.frames) :
          i # j => project_data.frames[i].name # project_data.frames[j].name
    /\ pc = "loaded" => Len(frames) = Len(project_data.frames)

C24_DtCapped ==
    [][(pc = "tick" /\ pc' = "events") => dt < MaxElapsed]_vars

\* C25: when main_loop is entered, in the first run and in every later run of
\* a new engine, no frame request is pending.
C25_NoRequestAtLoopStart ==
    [][(pc = "loaded" /\ pc' = "pump") => ~has_request(variant, ENGINE_CURRENT_FRAME)]_vars

\* C26: the iteration whose pump saw the quit event is carried out in full:
\* with a frame active, a pending request for another loaded frame is
\* applied by the switch step, the active frame is updated (every Event run
\* in turn) and drawn once, and only then, at the while test, the loop exits.
C26_QuitDoesNotCancelIteration ==
    [][/\ (pc # "exited" /\ pc' = "exited") => pc \in {"tick", "events"}
       /\ ~running =>
        /\ (/\ pc = "switch"
            /\ current_frame # 0
            /\ has_request(variant, ENGINE_CURRENT_FRAME)
            /\ Loaded(ENGINE_CURRENT_FRAME)
            /\ ENGINE_CURRENT_FRAME # heap[current_frame].name) =>
              /\ current_frame' = dict_get(frames, ENGINE_CURRENT_FRAME)
              /\ pc' = "tick"
        /\ (pc = "tick" /\ current_frame # 0) => (pc' = "events" /\ tickFrame' = current_frame)
        /\ (pc = "events" /\ idx <= Len(heap[current_frame].events)) =>
              (pc' = "events" /\ Len(log') = Len(log) + 1)
        /\ (pc = "events" /\ idx > Len(heap[current_frame].events)) =>
              /\ pc' = "exited"
              /\ updates'[current_frame] = Min(updates[current_frame] + 1, MaxCount)]_vars

\* the loop has exited after an iteration that saw the quit, switched from
\* Menu to Level1, ran Level1's Event and drew Level1, for the first time
C26_Witness ==
    /\ pc = "exited"
    /\ ~running
    /\ current_frame # 0
    /\ heap[current_frame].name = "Level1"
    /\ tickFrame = current_frame
    /\ Len(log) = 1
    /\ updates[current_frame] = 1
    /\ \E i \in 1..Len(heap) : heap[i].name = "Menu" /\ updates[i] >= 1

\* C27: an Event with no conditions executes all its actions at every
\* Event.run call, and every Event of the active frame is run in every tick;
\* an Event whose declared conditions are all of unregistered types is built
\* with no conditions and so executes its actions in every tick.
C27_EmptyConditionsAlwaysFire ==
    [][/\ IsEventRun =>
            LET e == heap[current_frame].events[idx]
                d == project_data.frames[current_frame].events[idx]
            IN  /\ e.conditions = <<>> => Last(log').executed = e.actions
                /\ (\A k \in 1..Len(d.conditions) :
                        d.conditions[k].type \notin registered_conditions(variant)) =>
                      /\ e.conditions = <<>>
                      /\ Last(log').executed = e.actions
       /\ (pc = "events" /\ pc' # "events") =>
            Len(log) = Len(heap[current_frame].events)]_vars

\* in a second tick of a frame, an Event declared with one condition of an
\* unregistered type has executed its action again
C27_Witness ==
    /\ pc = "events"
    /\ Len(log) = 1
    /\ updates[current_frame] >= 1
    /\ project_data.frames[current_frame].events[1].conditions # <<>>
    /\ heap[current_frame].events[1].conditions = <<>>
    /\ log[1].executed # <<>>

\* C28: a step of the loop changes no frame but the active one, and neither
\* change_frame nor the switch step changes any frame: a frame that is left
\* and entered again holds the objects and counter values it was left with.
C28_InactiveFramesKeepState ==
    [][(pc = "loaded" \/ InLoop) =>
        /\ Len(heap') = Len(heap)
        /\ \A i \in 1..Len(heap) : i # current_frame => heap'[i] = heap[i]
        /\ current_frame' # current_frame => heap' = heap]_vars

\* the loop has switched from Menu to Level1 and back, and Menu, entered
\* again, still lacks the object destroyed in it before it was left
C28_Witness ==
    /\ pc = "tick"
    /\ current_frame # 0
    /\ tickFrame # 0
    /\ tickFrame # current_frame
    /\ heap[current_frame].name = "Menu"
    /\ updates[current_frame] >= 1
    /\ Len(heap[current_frame].objects) < Len(project_data.frames[current_frame].objects)

\* C29: the pending request is one slot: after an Event.run that executed
\* GoToFrame actions, and at the end of a tick in which any were executed,
\* the signal holds the name given by the last one; when that name is not a
\* loaded frame, an earlier request of the tick for a loaded frame is lost
\* and the next switch step leaves the active frame as it is.
C29_LastRequestOverwrites ==
    [][/\ IsEventRun =>
            LET g == GoToNames(Last(log').executed)
            IN  g # <<>> => ENGINE_CURRENT_FRAME' = Last(g)
       /\ (pc = "events" /\ pc' # "events" /\ Requests(log) # <<>>) =>
            ENGINE_CURRENT_FRAME = Last(Requests(log))
       /\ (/\ IsSwitch
           /\ tickFrame # 0
           /\ Len(Requests(log)) >= 2
           /\ ~Loaded(Last(Requests(log)))) =>
            (current_frame' = current_frame /\ pc' = "tick")]_vars

\* a tick requested Level1 and then a name that is not loaded; after the next
\* switch step the frame of that tick is still the active one
C29_Witness ==
    /\ pc = "tick"
    /\ tickFrame # 0
    /\ Len(Requests(log)) = 2
    /\ Loaded(Requests(log)[1])
    /\ Requests(log)[1] # heap[tickFrame].name
    /\ ~Loaded(Requests(log)[2])
    /\ current_frame = tickFrame

(***************************************************************************)
(* Test4k_math.py: the demo's update loop.  The player's position is kept  *)
(* as a cell (x, z) of the ground plane; its height over the ground, which *)
(* the jump physics decides, is an input of each update.                   *)
(***************************************************************************)
\* how far the cells of the model reach beyond the spikes
Reach == 1

\* DemoPhysics.respawn_point and the DemoSpikes of DemoLevel.generate
respawn_point == [x |-> 0, z |-> 0]
spikes_position == [x |-> -5, z |-> 5]

Cells == [x : (spikes_position.x - Reach)..respawn_point.x,
          z : respawn_point.z..(spikes_position.z + Reach)]

\* distance(e, player) < 1.2, with the player at the height of the spikes or not
distance_lt_1_2(p, level) ==
    LET dx == p.x - spikes_position.x
        dz == p.z - spikes_position.z
    IN  level /\ (dx * dx + dz * dz) * 100 < 144

DemoInit ==
    /\ player = [health |-> 3, invincible |-> FALSE, x |-> 0, z |-> 0]
    /\ invokes = 0
    /\ variant = "Test4k_math"
    /\ project_data = [frames |-> <<>>]
    /\ file = None
    /\ ENGINE_CURRENT_FRAME = None
    /\ heap = <<>>
    /\ frames = <<>>
    /\ current_frame = 0
    /\ running = TRUE
    /\ keys = {}
    /\ pc = "new"
    /\ idx = 0
    /\ error = None
    /\ log = <<>>
    /\ tickFrame = 0
    /\ updates = <<>>
    /\ called = None
    /\ dt = 0

\* physics.move: the player moves by at most one cell along each axis
move(p, direction) == [p EXCEPT !.x = @ + direction.x, !.z = @ + direction.z]

\* the spikes loop of a demo that does not test the invincible flag
spikes_collision_always(p, level) ==
    IF distance_lt_1_2(p, level)
    THEN IF p.health - 1 <= 0
         THEN [p EXCEPT !.health = 3, !.invincible = TRUE,
                        !.x = respawn_point.x, !.z = respawn_point.z]
         ELSE [p EXCEPT !.health = @ - 1, !.invincible = TRUE]
    ELSE p

\* "Spikes collision": the loop body for the one DemoSpikes of the level
spikes_collision(p, level) ==
    IF distance_lt_1_2(p, level) /\ ~p.invincible
    THEN IF p.health - 1 <= 0
         THEN [p EXCEPT !.health = 3, !.invincible = TRUE,
                        !.x = respawn_point.x, !.z = respawn_point.z]
         ELSE [p EXCEPT !.health = @ - 1, !.invincible = TRUE]
    ELSE p

\* auto_patch_entity: entity.health = max(0, min(entity.health, 3))
auto_patch_entity(p) ==
    [p EXCEPT !.health = IF @ > 3 THEN 3 ELSE IF @ < 0 THEN 0 ELSE @]

\* one call of update(): move, spikes, auto patch; a hit schedules the invoke
update(direction, level) ==
    /\ [x |-> player.x + direction.x, z |-> player.z + direction.z] \in Cells
    /\ LET moved == move(player, direction)
           hit   == spikes_collision(moved, level)
       IN  /\ player' = auto_patch_entity(hit)
           /\ invokes' = IF hit # moved THEN invokes + 1 ELSE invokes
    /\ UNCHANGED <<dt, file, variant, project_data, ENGINE_CURRENT_FRAME, heap, frames,
                   current_frame, running, keys, pc, idx, error, log, tickFrame, updates,
                   called>>

\* the callback of invoke(setattr, player, 'invincible', False, delay=1)
invoke_setattr ==
    /\ invokes > 0
    /\ player' = [player EXCEPT !.invincible = FALSE]
    /\ invokes' = invokes - 1
    /\ UNCHANGED <<dt, file, variant, project_data, ENGINE_CURRENT_FRAME, heap, frames,
                   current_frame, running, keys, pc, idx, error, log, tickFrame, updates,
                   called>>

DemoNext ==
    \/ \E dx \in {-1, 0, 1}, dz \in {-1, 0, 1}, level \in BOOLEAN :
          update([x |-> dx, z |-> dz], level)
    \/ invoke_setattr

DemoSpec == DemoInit /\ [][DemoNext]_vars

\* C30: at the end of every update the player's health is in 1..3; an update
\* lowers it by 1, and sets the invincible flag, only when the player is at
\* the spikes with the flag false; with the flag true health stays; and the
\* hit that would bring health to 0 sets it to 3 and moves the player to the
\* respawn point in the same update.
C30_HealthInRange ==
    [][/\ player'.health \in 1..3
       /\ player'.health # player.health =>
            /\ ~player.invincible
            /\ player'.invincible
            /\ player'.health = (IF player.health = 1 THEN 3 ELSE player.health - 1)
            /\ player.health = 1 =>
                  (player'.x = respawn_point.x /\ player'.z = respawn_point.z)
       /\ player.invincible => player'.health = player.health]_vars

\* the player, hit with one health point left and respawned with three, is
\* back at the spikes with the invincible flag still true
C30_Witness ==
    /\ player.health = 3
    /\ player.invincible
    /\ invokes = 1
    /\ player.x = spikes_position.x
    /\ player.z = spikes_position.z

====
